---- MODULE Spec2Model ----
(***************************************************************************)
(* SeaFreeze (Python): the phase evaluation pipeline `seafreeze` and the   *)
(* stability selector `whichphase` of src/Python/seafreeze/seafreeze.py.   *)
(*                                                                         *)
(* Floating-point values are fixed-point integers (Scale units per 1.0)    *)
(* together with the two non-finite values the code produces, NaN and      *)
(* -inf.  Pressures are whole MPa; temperatures, knots and logarithms are  *)
(* in 1/Scale units.  The spline store and the Gibbs evaluator (mlbspline, *)
(* lbftd) are outside the repository: what a spline object holds is drawn  *)
(* from small sets when the code reads it.  Coordinate sets carry P and T. *)
(***************************************************************************)
EXTENDS Integers, Sequences, FiniteSets, TLC

\* ------------------------------------------------------------ bounds
MaxPts == 2
MaxAxis == 2

\* ------------------------------------------------------------ numbers
Scale == 1000
FracBits == 8
Ln2 == 693
NaN == -2000000000
NegInf == -1999999999

IsNaN(x) == x = NaN
IsFinite(x) == x # NaN /\ x # NegInf

\* IEEE comparisons: every comparison with NaN is false.
Lt(a, b) == ~IsNaN(a) /\ ~IsNaN(b) /\ a < b
Gt(a, b) == Lt(b, a)

\* x / c for a positive finite c.
TrueDiv(x, c) ==
    IF IsNaN(x) THEN NaN
    ELSE IF x = NegInf THEN NegInf
    ELSE (x * Scale) \div c

RECURSIVE Log2Norm(_, _)
\* <<n, m>> with x = m * 2^n and Scale <= m < 2*Scale, for x > 0.
Log2Norm(x, n) ==
    IF x >= 2 * Scale THEN Log2Norm(x \div 2, n + 1)
    ELSE IF x < Scale THEN Log2Norm(x * 2, n - 1)
    ELSE <<n, x>>

RECURSIVE Pow2(_)
Pow2(k) == IF k = 0 THEN 1 ELSE 2 * Pow2(k - 1)

RECURSIVE Log2Frac(_, _)
\* The first k binary digits of log2(m / Scale), by repeated squaring.
Log2Frac(m, k) ==
    IF k = 0 THEN 0
    ELSE LET sq == (m * m) \div Scale IN
         IF sq >= 2 * Scale THEN Pow2(k - 1) + Log2Frac(sq \div 2, k - 1)
         ELSE Log2Frac(sq, k - 1)

\* np.log: nan for a negative argument or nan, -inf at zero.
NpLog(x) ==
    IF IsNaN(x) \/ x < 0 THEN NaN
    ELSE IF x = 0 THEN NegInf
    ELSE LET nm == Log2Norm(x, 0)
             log2 == nm[1] * Scale + (Log2Frac(nm[2], FracBits) * Scale) \div Pow2(FracBits)
         IN  (log2 * Ln2) \div Scale

\* ------------------------------------------------------------ registry
mH2O_kgmol == 18015
MW_NH3 == 17031
MW_NaCl == 58440
None == <<>>

\* The phases dict, in insertion order.  shear_mod_parms are in 1e-5 units
\* (c0..c3), kg/m3 (rho0) and 1/Scale K (T0); MW is in 1e-6 kg/mol.
PhaseTable == <<
    [name |-> "Ih", sp_name |-> "G_iceIh",
     shear_mod_parms |-> <<304000, -462, 0, -607, 1000, 273150>>, phase_num |-> 1, MW |-> mH2O_kgmol],
    [name |-> "II", sp_name |-> "G_iceII",
     shear_mod_parms |-> <<410000, 1750, 0, -1400, 1100, 273000>>, phase_num |-> 2, MW |-> mH2O_kgmol],
    [name |-> "III", sp_name |-> "G_iceIII",
     shear_mod_parms |-> <<257000, 1750, 0, -1400, 1100, 273000>>, phase_num |-> 3, MW |-> mH2O_kgmol],
    [name |-> "V", sp_name |-> "G_iceV",
     shear_mod_parms |-> <<257000, 1750, 0, -1400, 1100, 273000>>, phase_num |-> 5, MW |-> mH2O_kgmol],
    [name |-> "VI", sp_name |-> "G_iceVI",
     shear_mod_parms |-> <<257000, 1750, 0, -1400, 1100, 273000>>, phase_num |-> 6, MW |-> mH2O_kgmol],
    [name |-> "water1", sp_name |-> "G_H2O_2GPa_500K",
     shear_mod_parms |-> None, phase_num |-> 0, MW |-> mH2O_kgmol],
    [name |-> "water2", sp_name |-> "G_H2O_100GPa_10000K",
     shear_mod_parms |-> None, phase_num |-> NaN, MW |-> mH2O_kgmol],
    [name |-> "water_IAPWS95", sp_name |-> "G_H2O_IAPWS",
     shear_mod_parms |-> None, phase_num |-> NaN, MW |-> mH2O_kgmol],
    [name |-> "NH3", sp_name |-> "LBF_NH3_H2O_SSdev_v1",
     shear_mod_parms |-> None, phase_num |-> 0, MW |-> MW_NH3],
    [name |-> "NaCl", sp_name |-> "NaCl_LBF_8000MPa",
     shear_mod_parms |-> None, phase_num |-> 0, MW |-> MW_NaCl] >>

PhaseNames == {PhaseTable[i].name : i \in DOMAIN PhaseTable}

\* phases[name]; the caller handles KeyError through name \in PhaseNames.
phases(name) == PhaseTable[CHOOSE i \in DOMAIN PhaseTable : PhaseTable[i].name = name]

\* A Python dict as the sequence of its <<key, value>> items in insertion
\* order: a key already present keeps its place and takes the new value.
DictPut(d, k, v) ==
    IF \E i \in DOMAIN d : d[i][1] = k
    THEN [i \in DOMAIN d |-> IF d[i][1] = k THEN <<k, v>> ELSE d[i]]
    ELSE Append(d, <<k, v>>)

DictGet(d, k) == d[CHOOSE i \in DOMAIN d : d[i][1] = k][2]
DictKeys(d) == [i \in DOMAIN d |-> d[i][1]]

RECURSIVE PyMax(_, _, _)
\* Python's max(): the running maximum is replaced when item > maximum.
PyMax(s, i, m) ==
    IF i > Len(s) THEN m
    ELSE PyMax(s, i + 1, IF Gt(s[i], m) THEN s[i] ELSE m)

max_phase_num ==
    PyMax([i \in DOMAIN PhaseTable |-> PhaseTable[i].phase_num], 2, PhaseTable[1].phase_num)

RECURSIVE Num2Phase(_, _)
Num2Phase(i, d) ==
    IF i > Len(PhaseTable) THEN d
    ELSE Num2Phase(i + 1, DictPut(d, PhaseTable[i].phase_num, PhaseTable[i].name))

phasenum2phase == Num2Phase(1, <<>>)

\* ------------------------------------------------------------ inputs
iP == 1
iT == 2

\* The caller's coordinates: the first points of a pressure and of a
\* temperature sequence (MPa, K), as many as the bounds allow.
PInput(i) == 400 * i
TInput(j) == (100 + 200 * j) * Scale

TcVals == {250 * Scale}
GVals == {1, 2}
RhoVals == {900, 1200}
KsVals == {9000}

\* Knot ranges <<min, max>> of a spline: pressure in MPa, temperature in K
\* for a spline over T and in ln(T/Tc) for a spline over dimensionless T.
KnotsP == {<<0, 500>>}
KnotsT == {<<0, 400 * Scale>>}
KnotsLnT == {<<-5 * Scale, Scale>>}

\* What load.loadSpline returns, as far as the code reads it: the ndT flag,
\* Tc, the knot sequence bounds, and g, the level of the Gibbs surface the
\* evaluator computes from the spline's coefficients.
SplineObjs ==
    {[ndT |-> FALSE, Tc |-> 0, knots |-> <<kp, kt>>, g |-> g] :
        kp \in KnotsP, kt \in KnotsT, g \in GVals}
    \cup
    {[ndT |-> TRUE, Tc |-> tc, knots |-> <<kp, kt>>, g |-> g] :
        tc \in TcVals, kp \in KnotsP, kt \in KnotsLnT, g \in GVals}

NoSpline == [ndT |-> FALSE, Tc |-> 0, knots |-> <<>>, g |-> 0]

\* Scatter input: a 1-d object array of (P, T) tuples.
ScatterSets == {[i \in 1..n |-> [tuple |-> <<PInput(i), TInput(i)>>]] : n \in 1..MaxPts}

\* Grid input: an object array holding the P axis and the T axis, each
\* sorted from low to high.
GridSets ==
    {<<[array |-> [i \in 1..n |-> PInput(i)]], [array |-> [j \in 1..m |-> TInput(j)]]>> :
        n \in 1..MaxAxis, m \in 1..MaxAxis}

CallNames == PhaseNames \cup {"bogus"}

\* ------------------------------------------------------------ arrays
\* isinstance(PTm[0], tuple).  The two other disjuncts test np.isscalar on a
\* row of a 2-d array, which is an array: they are false for every input.
is_scatter(PTm_) == "tuple" \in DOMAIN PTm_[1]

\* The reference shape ptsh.
Shape(PTm_, sc) ==
    IF sc THEN <<Len(PTm_)>> ELSE <<Len(PTm_[iP].array), Len(PTm_[iT].array)>>

Indices(sh) ==
    IF Len(sh) = 1 THEN {<<i>> : i \in 1..sh[1]}
    ELSE {<<i, j>> : i \in 1..sh[1], j \in 1..sh[2]}

CoordP(PTm_, sc, ix) == IF sc THEN PTm_[ix[1]].tuple[iP] ELSE PTm_[iP].array[ix[1]]
CoordT(PTm_, sc, ix) == IF sc THEN PTm_[ix[1]].tuple[iT] ELSE PTm_[iT].array[ix[2]]

get_T(PTm_, is_scatter_) ==
    IF is_scatter_ THEN [i \in DOMAIN PTm_ |-> PTm_[i].tuple[iT]] ELSE PTm_[iT].array

get_PT(PTm_, is_scatter_) ==
    IF is_scatter_ THEN PTm_ ELSE SubSeq(PTm_, 1, 2)

\* PTm[iT] = np.log(PTm[iT] / Tc) on a grid: the T axis of the caller's
\* array is replaced.
LogT(PTm_, Tc) ==
    [PTm_ EXCEPT ![iT] =
        [array |-> [j \in DOMAIN PTm_[iT].array |-> NpLog(TrueDiv(PTm_[iT].array[j], Tc))]]]

\* PTm[:, iT] on the 1-d object array of tuples raises IndexError.
ErrTooManyIndices == "IndexError: too many indices for array"
ErrNanIndex == "IndexError: only integers, slices and integer or boolean arrays are valid indices"
ErrBroadcast == "ValueError: could not broadcast input array"
ErrPhase == "ValueError: The specified phase is not recognized"
NoErr == "none"

\* np.squeeze drops every axis of length 1.
Squeeze(sh) == SelectSeq(sh, LAMBDA d : d # 1)

\* Whether an array of shape src can be assigned to a slice of shape dst.
CanBroadcast(src, dst) ==
    /\ Len(src) <= Len(dst)
    /\ \A k \in 1..Len(src) :
           src[Len(src) + 1 - k] \in {1, dst[Len(dst) + 1 - k]}

\* ------------------------------------------------------------ evaluator
Mul(a, b) == IF IsNaN(a) \/ IsNaN(b) THEN NaN ELSE a * b

\* evalSolutionGibbsScatter / evalSolutionGibbsGrid with failOnExtrapolate
\* False: a value at every point, nan where the coordinate is not finite.
EvalG(s, P, T) == IF IsFinite(T) THEN s.g ELSE NaN

\* The chemical potential of water, per mole of water.
EvalMuw(s, P, T) == Mul(EvalG(s, P, T), mH2O_kgmol)

get_tdvs(s, PTm_, is_scatter_, q) ==
    [ix \in Indices(Shape(PTm_, is_scatter_)) |->
        IF q = "muw" THEN EvalMuw(s, CoordP(PTm_, is_scatter_, ix), CoordT(PTm_, is_scatter_, ix))
        ELSE EvalG(s, CoordP(PTm_, is_scatter_, ix), CoordT(PTm_, is_scatter_, ix))]

\* ------------------------------------------------------------ whichphase
\* 'water' in solute.
ContainsWater(solute) == solute \in {"water1", "water2", "water_IAPWS95"}

\* A plausible slip: >= 0 for > 0 loads every liquid of the registry.
Selected_all_liquids(pcomp, v, solute) ==
    Gt(v.phase_num, 0) \/ v.phase_num = 0 \/ pcomp = solute

\* The filter of the phase_sp comprehension.
Selected(pcomp, v, solute) == Gt(v.phase_num, 0) \/ pcomp = solute

RECURSIVE LoadPhases(_, _, _)
\* phase_sp: {v.phase_num: loadSpline(path, v.sp_name) ...}, the spline
\* named by its sp_name.
LoadPhases(solute, i, d) ==
    IF i > Len(PhaseTable) THEN d
    ELSE LoadPhases(solute, i + 1,
            IF Selected(PhaseTable[i].name, PhaseTable[i], solute)
            THEN DictPut(d, PhaseTable[i].phase_num, PhaseTable[i].sp_name)
            ELSE d)

\* The slice index p is a valid index of the last axis of comp.
ValidIndex(p_) == ~IsNaN(p_) /\ p_ \in 0..max_phase_num

EmptyComp(sh) == [ix \in Indices(sh) |-> [c \in 0..max_phase_num |-> NaN]]

\* The comparable value of phase p at every point: G * MW, or muw for a
\* solute that is not a water parametrization.
Comparable(p_, solute, s, PTm_, sc) ==
    IF p_ = 0
    THEN IF ContainsWater(solute)
         THEN LET G == get_tdvs(s, get_PT(PTm_, sc), sc, "G")
                  MW == phases(solute).MW
              IN  [ix \in DOMAIN G |-> Mul(G[ix], MW)]
         ELSE get_tdvs(s, PTm_, sc, "muw")
    ELSE LET G == get_tdvs(s, get_PT(PTm_, sc), sc, "G")
             MW == phases(DictGet(phasenum2phase, p_)).MW
         IN  [ix \in DOMAIN G |-> Mul(G[ix], MW)]

\* extrap: the points outside the knot sequence of the spline, read from
\* the coordinate buffer as it is now.
Extrap(s, PTm_, sc, ix) ==
    IF sc
    THEN \/ Lt(PTm_[ix[1]].tuple[iP], s.knots[iP][1])
         \/ Gt(PTm_[ix[1]].tuple[iP], s.knots[iP][2])
         \/ Lt(PTm_[ix[1]].tuple[iT], s.knots[iT][1])
         \/ Gt(PTm_[ix[1]].tuple[iT], s.knots[iT][2])
    ELSE LET pt == [i \in DOMAIN PTm_[iP].array |->
                       Lt(PTm_[iP].array[i], s.knots[iP][1]) \/ Gt(PTm_[iP].array[i], s.knots[iP][2])]
             tt == [j \in DOMAIN PTm_[iT].array |->
                       Lt(PTm_[iT].array[j], s.knots[iT][1]) \/ Gt(PTm_[iT].array[j], s.knots[iT][2])]
         IN  pt[ix[1]] \/ tt[ix[2]]

\* tdvs[extrap] = np.nan
Masked(vals, s, PTm_, sc) ==
    [ix \in DOMAIN vals |-> IF Extrap(s, PTm_, sc, ix) THEN NaN ELSE vals[ix]]

\* The coordinate buffer after the dimensionless-T step of one phase.
ConvertT(s, PTm_, sc) == IF s.ndT /\ ~sc THEN LogT(PTm_, s.Tc) ELSE PTm_

\* One pass of the loop over phase_sp.keys(), for the key p and its spline
\* s: the error it raises (NoErr if none), the coordinate buffer and the
\* comparison matrix it leaves.
PhaseIteration(p_, s, solute, PTm_, sc, comp_) ==
    IF s.ndT /\ sc
    THEN [err |-> ErrTooManyIndices, PTm |-> PTm_, comp |-> comp_]
    ELSE LET buf == ConvertT(s, PTm_, sc)
             vals == Masked(Comparable(p_, solute, s, buf, sc), s, buf, sc)
             sh == Shape(buf, sc)
         IN  IF ~ValidIndex(p_)
             THEN [err |-> ErrNanIndex, PTm |-> buf, comp |-> comp_]
             ELSE IF ~CanBroadcast(Squeeze(sh), sh)
             THEN [err |-> ErrBroadcast, PTm |-> buf, comp |-> comp_]
             ELSE [err |-> NoErr, PTm |-> buf,
                   comp |-> [ix \in DOMAIN comp_ |-> [comp_[ix] EXCEPT ![p_] = vals[ix]]]]

all_nan(row) == \A c \in DOMAIN row : IsNaN(row[c])

\* A plausible slip: np.argmin, which returns the index of the first nan.
argmin_nan(row) ==
    IF \E c \in DOMAIN row : IsNaN(row[c])
    THEN CHOOSE c \in DOMAIN row :
             IsNaN(row[c]) /\ \A d \in DOMAIN row : d < c => ~IsNaN(row[d])
    ELSE CHOOSE c \in DOMAIN row : \A d \in DOMAIN row : row[c] <= row[d]

\* A plausible slip: the last index of the least value instead of the first.
nanargmin_last(row) ==
    CHOOSE c \in DOMAIN row :
        /\ ~IsNaN(row[c])
        /\ \A d \in DOMAIN row : ~IsNaN(row[d]) => row[c] <= row[d]
        /\ \A d \in DOMAIN row : (d > c /\ ~IsNaN(row[d])) => row[c] < row[d]

\* np.nanargmin: the first index of the least value that is not nan.
nanargmin(row) ==
    CHOOSE c \in DOMAIN row :
        /\ ~IsNaN(row[c])
        /\ \A d \in DOMAIN row : ~IsNaN(row[d]) => row[c] <= row[d]
        /\ \A d \in DOMAIN row : (d < c /\ ~IsNaN(row[d])) => row[c] < row[d]

\* A plausible slip: no all-nan test, the arg-min of nothing being index 0.
ReduceOut_no_nan_check(comp_) ==
    [ix \in DOMAIN comp_ |-> IF all_nan(comp_[ix]) THEN 0 ELSE nanargmin(comp_[ix])]

\* out: nan for an all-nan slice, the arg-min of the slice otherwise.
ReduceOut(comp_) ==
    [ix \in DOMAIN comp_ |-> IF all_nan(comp_[ix]) THEN NaN ELSE nanargmin(comp_[ix])]

\* ------------------------------------------------------------ seafreeze
RECURSIVE ISqrtIn(_, _, _)
\* The largest r in lo..hi with r * r <= x, by bisection.
ISqrtIn(x, lo, hi) ==
    IF lo >= hi THEN lo
    ELSE LET mid == (lo + hi + 1) \div 2 IN
         IF mid * mid <= x THEN ISqrtIn(x, mid, hi) ELSE ISqrtIn(x, lo, mid - 1)

\* np.sqrt: nan for a negative argument.
NpSqrt(x) == IF IsNaN(x) \/ x < 0 THEN NaN ELSE ISqrtIn(x, 0, 46340)

\* sm[0] + sm[1]*(rho - sm[4]) + sm[2]*(rho - sm[4])**2 + sm[3]*(T - sm[5]),
\* in 1e-5 GPa; T is in 1/Scale units.
get_shear_mod_GPa(sm, rho, T) ==
    IF sm = None THEN None
    ELSE IF ~IsFinite(rho) \/ ~IsFinite(T) THEN NaN
    ELSE sm[1] + sm[2] * (rho - sm[5]) + sm[3] * (rho - sm[5]) * (rho - sm[5])
             + (sm[4] * (T - sm[6])) \div Scale

\* 1e3 * sqrt((Ks/1e3 + 4/3*smg) / rho / 1e-3), in m/s (to 10 m/s).
get_Vp(smg, rho, Ks) ==
    IF IsNaN(smg) \/ IsNaN(rho) \/ IsNaN(Ks) THEN NaN
    ELSE Mul(10, NpSqrt((100 * (Ks * 100 + (4 * smg) \div 3)) \div rho))

\* 1e3 * sqrt(smg / rho / 1e-3), in m/s (to 10 m/s).
get_Vs(smg, rho) ==
    IF IsNaN(smg) \/ IsNaN(rho) THEN NaN
    ELSE Mul(10, NpSqrt((100 * smg) \div rho))

\* The T array of _get_T laid over the shape of rho.
TAt(Ts, sc, ix) == IF sc THEN Ts[ix[1]] ELSE Ts[ix[2]]

NoTdvs == [rho |-> <<>>, Ks |-> <<>>, hasShear |-> FALSE, shear |-> <<>>, Vp |-> <<>>, Vs |-> <<>>]

\* seafreeze, lines 69-85: the body after the phase lookup, for the loaded
\* spline s and the density and bulk modulus level the evaluator returns.
SeafreezeBody(phase, s, rho, Ks, PTm_) ==
    LET sc == is_scatter(PTm_)
        phasedesc == phases(phase)
    IN  IF s.ndT /\ sc
        THEN [err |-> ErrTooManyIndices, sp |-> s, PTm |-> PTm_, tdvs |-> NoTdvs]
        ELSE LET buf == ConvertT(s, PTm_, sc)
                 I == Indices(Shape(buf, sc))
                 rhos == [ix \in I |-> IF IsFinite(CoordT(buf, sc, ix)) THEN rho ELSE NaN]
                 Kss == [ix \in I |-> IF IsFinite(CoordT(buf, sc, ix)) THEN Ks ELSE NaN]
                 smg == [ix \in I |->
                            get_shear_mod_GPa(phasedesc.shear_mod_parms, rhos[ix],
                                              TAt(get_T(buf, sc), sc, ix))]
             IN  IF phasedesc.shear_mod_parms # None
                 THEN [err |-> NoErr, sp |-> s, PTm |-> buf,
                       tdvs |-> [rho |-> rhos, Ks |-> Kss, hasShear |-> TRUE,
                                 shear |-> [ix \in I |-> Mul(1000, smg[ix])],
                                 Vp |-> [ix \in I |-> get_Vp(smg[ix], rhos[ix], Kss[ix])],
                                 Vs |-> [ix \in I |-> get_Vs(smg[ix], rhos[ix])]]]
                 ELSE [err |-> NoErr, sp |-> s, PTm |-> buf,
                       tdvs |-> [NoTdvs EXCEPT !.rho = rhos, !.Ks = Kss]]

\* A plausible slip: an unknown phase falls back to the default water1.
seafreeze_default(phase, s, rho, Ks, PTm_) ==
    SeafreezeBody(IF phase \in PhaseNames THEN phase ELSE "water1", s, rho, Ks, PTm_)

\* seafreeze: the KeyError of the lookup becomes a ValueError before the
\* spline is loaded; otherwise the body runs.
seafreeze(phase, s, rho, Ks, PTm_) ==
    IF phase \notin PhaseNames
    THEN [err |-> ErrPhase, sp |-> NoSpline, PTm |-> PTm_, tdvs |-> NoTdvs]
    ELSE SeafreezeBody(phase, s, rho, Ks, PTm_)

\* ------------------------------------------------------------ state
VARIABLES
    fn,         \* the public function called: "seafreeze" or "whichphase"
    name,       \* its phase / solute argument
    PTm,        \* the caller's coordinate array, which the call may overwrite
    PTm0,       \* the coordinates as the caller passed them
    pc,         \* "call", "loop", "done" (returned) or "failed" (raised)
    err,        \* the exception raised, NoErr if none
    isscatter,
    phase_sp,   \* the dict of loaded splines: <<phase_num, sp_name>> items
    idx,        \* how many keys of phase_sp the loop has processed
    p,          \* the loop variable: the key being processed
    sp,         \* the spline object last read
    comp,       \* the comparison matrix
    out,        \* the array whichphase returns
    tdvs        \* the bundle seafreeze returns

vars == <<fn, name, PTm, PTm0, pc, err, isscatter, phase_sp, idx, p, sp, comp, out, tdvs>>

Init ==
    /\ fn \in {"seafreeze", "whichphase"}
    /\ name \in CallNames
    /\ PTm \in ScatterSets \cup GridSets
    /\ PTm0 = PTm
    /\ pc = "call"
    /\ err = NoErr
    /\ isscatter = FALSE
    /\ phase_sp = <<>>
    /\ idx = 0
    /\ p = NaN
    /\ sp = NoSpline
    /\ comp = <<>>
    /\ out = <<>>
    /\ tdvs = NoTdvs

\* A call of seafreeze(PTm, name).
SeafreezeCall ==
    /\ pc = "call" /\ fn = "seafreeze"
    /\ \E s \in SplineObjs, rho \in RhoVals, Ks \in KsVals :
          LET r == seafreeze(name, s, rho, Ks, PTm) IN
          /\ sp' = r.sp
          /\ isscatter' = IF r.err = ErrPhase THEN isscatter ELSE is_scatter(PTm)
          /\ PTm' = r.PTm
          /\ tdvs' = r.tdvs
          /\ err' = r.err
          /\ pc' = IF r.err = NoErr THEN "done" ELSE "failed"
    /\ UNCHANGED <<fn, name, PTm0, phase_sp, idx, p, comp, out>>

\* whichphase, lines 129-133.
WhichphaseBegin ==
    /\ pc = "call" /\ fn = "whichphase"
    /\ isscatter' = is_scatter(PTm)
    /\ phase_sp' = LoadPhases(name, 1, <<>>)
    /\ comp' = EmptyComp(Shape(PTm, is_scatter(PTm)))
    /\ pc' = "loop"
    /\ UNCHANGED <<fn, name, PTm, PTm0, err, idx, p, sp, out, tdvs>>

\* whichphase, lines 134-163: one pass of the loop.
WhichphaseIter ==
    /\ pc = "loop" /\ idx < Len(phase_sp)
    /\ \E s \in SplineObjs :
          LET key == DictKeys(phase_sp)[idx + 1]
              r == PhaseIteration(key, s, name, PTm, isscatter, comp)
          IN  /\ p' = key
              /\ sp' = s
              /\ idx' = idx + 1
              /\ PTm' = r.PTm
              /\ comp' = r.comp
              /\ err' = r.err
              /\ pc' = IF r.err = NoErr THEN "loop" ELSE "failed"
    /\ UNCHANGED <<fn, name, PTm0, isscatter, phase_sp, out, tdvs>>

\* whichphase, lines 165-168.
WhichphaseReduce ==
    /\ pc = "loop" /\ idx = Len(phase_sp)
    /\ out' = ReduceOut(comp)
    /\ pc' = "done"
    /\ UNCHANGED <<fn, name, PTm, PTm0, err, isscatter, phase_sp, idx, p, sp, comp, tdvs>>

Next ==
    \/ SeafreezeCall
    \/ WhichphaseBegin
    \/ WhichphaseIter
    \/ WhichphaseReduce

Spec == Init /\ [][Next]_vars

\* ------------------------------------------------------------ claims
Returned == fn = "whichphase" /\ pc = "done"

\* The candidate phases: the keys of phase_sp.
Cand == {phase_sp[i][1] : i \in DOMAIN phase_sp}

\* The keys the loop has processed.
Processed == {phase_sp[i][1] : i \in 1..idx}

Present(ix) == {c \in Cand : ~IsNaN(comp[ix][c])}

\* The candidates that tie for the least comparison value at a point.
Tied(ix) == {c \in Present(ix) : \A d \in Present(ix) : comp[ix][c] <= comp[ix][d]}

\* The place of a key in the loop over phase_sp.keys().
Place(c) == CHOOSE i \in DOMAIN phase_sp : phase_sp[i][1] = c

\* The temperature of a point as phase s should read it, from the
\* caller's original coordinates: K, or ln(T/Tc) with the Tc of s.
OwnT(s, ix) ==
    IF s.ndT THEN NpLog(TrueDiv(CoordT(PTm0, isscatter, ix), s.Tc))
    ELSE CoordT(PTm0, isscatter, ix)

\* C1: when whichphase returns, every point at which the comparison value
\* of every candidate phase is missing has the missing value as output.
C1_AllMissingGivesMissing ==
    Returned =>
        \A ix \in DOMAIN out : Present(ix) = {} => IsNaN(out[ix])

C1_Witness ==
    /\ Returned
    /\ \E ix \in DOMAIN out : Present(ix) = {} /\ IsNaN(out[ix])
    /\ \E ix \in DOMAIN out : Present(ix) # {}

\* C2: after a phase is evaluated and masked, its comparison value is
\* missing at every point whose P or T lies outside its knot bounds.
C2_OutsideKnotsIsMissing ==
    (fn = "whichphase" /\ pc = "loop" /\ idx > 0) =>
        \A ix \in DOMAIN comp :
            (\/ Lt(CoordP(PTm0, isscatter, ix), sp.knots[iP][1])
             \/ Gt(CoordP(PTm0, isscatter, ix), sp.knots[iP][2])
             \/ Lt(OwnT(sp, ix), sp.knots[iT][1])
             \/ Gt(OwnT(sp, ix), sp.knots[iT][2]))
            => IsNaN(comp[ix][p])

\* C3: when a phase is evaluated, the temperature in the coordinate buffer
\* is the caller's T for a phase over T and ln(T/Tc) of the caller's T,
\* with the phase's own Tc, for a phase over dimensionless T.
C3_BufferTemperatureIsOwn ==
    (fn = "whichphase" /\ pc = "loop" /\ idx > 0) =>
        \A ix \in DOMAIN comp : CoordT(PTm, isscatter, ix) = OwnT(sp, ix)

\* C4: whichphase with a solute that is not in the registry returns no
\* array of phase codes.
C4_UnknownSoluteFails ==
    (fn = "whichphase" /\ name \notin PhaseNames) => pc # "done"

\* C5: seafreeze with a phase that is not in the registry raises the
\* ValueError, returns no bundle, loads no spline and leaves the caller's
\* coordinates as they were.
C5_UnknownPhaseFailsFirst ==
    (fn = "seafreeze" /\ name \notin PhaseNames /\ pc # "call") =>
        /\ pc = "failed"
        /\ err = ErrPhase
        /\ tdvs = NoTdvs
        /\ sp = NoSpline
        /\ PTm = PTm0

C5_Witness ==
    fn = "seafreeze" /\ name = "bogus" /\ pc = "failed" /\ ~is_scatter(PTm)

\* C6: with a comparison-only solute (water2, water_IAPWS95), once the
\* loop has reached the end of the candidates without a coordinate error,
\* the solute's values are in the comparison and the call has not failed.
C6_ComparisonOnlyCompletes ==
    (/\ fn = "whichphase" /\ name \in {"water2", "water_IAPWS95"}
     /\ idx > 0 /\ idx = Len(phase_sp)
     /\ err \notin {ErrTooManyIndices, ErrBroadcast})
    => pc # "failed"

\* C7: when whichphase returns, at every point with a candidate whose
\* comparison value is not missing, the output is the code of a candidate
\* whose value is not missing and is at most that of every such candidate.
C7_OutputIsAMinimum ==
    Returned =>
        \A ix \in DOMAIN out : Present(ix) # {} => out[ix] \in Tied(ix)

C7_Witness ==
    /\ Returned
    /\ \E ix \in DOMAIN out :
          /\ Present(ix) # {} /\ Present(ix) # Cand
          /\ Tied(ix) # Present(ix)
          /\ out[ix] \in Tied(ix)

\* C8 as stated: among the candidates that tie for the least value, the
\* output is the one the loop over the phases meets first.
C8_FirstEncounteredWins ==
    Returned =>
        \A ix \in DOMAIN out :
            Present(ix) # {} =>
                /\ out[ix] \in Tied(ix)
                /\ \A c \in Tied(ix) : Place(out[ix]) <= Place(c)

\* C8 as amended: among the candidates that tie for the least value, the
\* output is the one with the smallest phase code.
C8_LowestCodeWins ==
    Returned =>
        \A ix \in DOMAIN out :
            Present(ix) # {} =>
                /\ out[ix] \in Tied(ix)
                /\ \A c \in Tied(ix) : out[ix] <= c

C8_Witness ==
    /\ Returned
    /\ \E ix \in DOMAIN out :
          /\ {0, 1} \subseteq Tied(ix)
          /\ out[ix] = 0
          /\ Place(0) > Place(1)

\* C9: with a solute of phase code 0, the one liquid loaded is the
\* solute's own spline, the slice of a code no processed phase carries
\* is missing everywhere, and the output holds only nan and loaded codes.
C9_OneLiquidAndLoadedCodesOnly ==
    (fn = "whichphase" /\ name \in {"water1", "NH3", "NaCl"} /\ pc # "call") =>
        /\ Cand = {0, 1, 2, 3, 5, 6}
        /\ Len(phase_sp) = Cardinality(Cand)
        /\ DictGet(phase_sp, 0) = phases(name).sp_name
        /\ \A ix \in DOMAIN comp :
              \A c \in 0..max_phase_num : c \notin Processed => IsNaN(comp[ix][c])
        /\ pc = "done" =>
              \A ix \in DOMAIN out : IsNaN(out[ix]) \/ out[ix] \in Cand

C9_Witness ==
    /\ Returned /\ name = "NH3"
    /\ \E ix \in DOMAIN out : out[ix] = 0
    /\ \E ix \in DOMAIN out : IsNaN(out[ix])

\* C10: the shear modulus seafreeze returns is the polynomial at the
\* caller's temperature in kelvin.
C10_ShearUsesKelvin ==
    (fn = "seafreeze" /\ pc = "done" /\ tdvs.hasShear) =>
        \A ix \in DOMAIN tdvs.shear :
            tdvs.shear[ix] =
                Mul(1000, get_shear_mod_GPa(phases(name).shear_mod_parms, tdvs.rho[ix],
                                            CoordT(PTm0, isscatter, ix)))

====
